---------------------------- MODULE Spec2Model ----------------------------
(***************************************************************************)
(* Game Boy emulator core: the memory-mapped bus (src/memory/memory.go)    *)
(* and the CPU (src/cpu/cpu.go, the version at lines 1-385, which is the   *)
(* one that decodes LD A,d8 and ADD A,d8), and the Add of the version at   *)
(* lines 780-984 (AddTruncated).                                           *)
(*                                                                         *)
(* Numbers are written in decimal; the hexadecimal value of the source is  *)
(* given in the comment next to each.                                      *)
(***************************************************************************)
EXTENDS Integers, Sequences, FiniteSets, TLC

VARIABLES
    ROMData,   \* the ROM image handed to NewMemory (main.go:20, main.go:129)
    mem,       \* the driver's Memory object (memory.go:25-32)
    cpu,       \* the CPU object (cpu.go:9-19)
    panicked,  \* TRUE once a Go run-time panic (index out of range) killed the process
    addend,    \* the byte the driver passes to the arithmetic calls of SpecAdd
    nops,      \* number of operations performed so far
    last       \* the operation performed last, its inputs, its result and the state before it

vars == <<ROMData, mem, cpu, panicked, addend, nops, last>>

----------------------------------------------------------------------------
(* Machine integers *)

\* byte(x): conversion of an integer to uint8 keeps the low 8 bits
Byte(x) == x % 256

\* uint16 arithmetic wraps modulo 2^16
Wrap16(x) == x % 65536

\* a conversion that takes the offset byte as an unsigned number
Int8Unsigned(b) == b

\* int8(b) of a byte b: the same bit pattern read as two's complement
Int8(b) == IF b >= 128 THEN b - 256 ELSE b

\* uint16(o) of an int8 o: sign extension, i.e. o modulo 2^16
Uint16OfInt8(o) == o % 65536

Bit(x, i) == (x \div (2 ^ i)) % 2

RECURSIVE BitCombine(_, _, _, _)
\* bitwise combination of the low n bits of x and y; op is "and", "or" or "andnot"
BitCombine(op, x, y, n) ==
    IF n = 0 THEN 0
    ELSE LET i == n - 1
             bx == Bit(x, i)
             by == Bit(y, i)
             b == CASE op = "and" -> bx * by
                    [] op = "or" -> IF bx + by > 0 THEN 1 ELSE 0
                    [] op = "andnot" -> bx * (1 - by)
         IN b * (2 ^ i) + BitCombine(op, x, y, i)

\* Go's x & y, x | y and x &^ y on bytes
BitAnd(x, y) == BitCombine("and", x, y, 8)
BitOr(x, y) == BitCombine("or", x, y, 8)
BitAndNot(x, y) == BitCombine("andnot", x, y, 8)

----------------------------------------------------------------------------
(* Byte arrays.  A Go array is zero-initialised; it is kept as the function *)
(* of its non-zero cells, so an index outside the domain holds 0.           *)

ZeroArray == << >>

ArrGet(a, i) == IF i \in DOMAIN a THEN a[i] ELSE 0

ArrSet(a, i, v) ==
    IF v = 0
    THEN [j \in (DOMAIN a) \ {i} |-> a[j]]
    ELSE [j \in (DOMAIN a) \cup {i} |-> IF j = i THEN v ELSE a[j]]

\* A byte slice ([]byte): its length and its cells
Slice(n, cells) == [len |-> n, data |-> cells]

----------------------------------------------------------------------------
(* memory.go: the address map *)

ROMStart == 0            \* 0x0000
ROMEnd == 32767          \* 0x7FFF
VRAMStart == 32768       \* 0x8000
VRAMEnd == 40959         \* 0x9FFF
ExternalRAMStart == 40960   \* 0xA000
ExternalRAMEnd == 49151     \* 0xBFFF
InternalRAM0Start == 49152  \* 0xC000
InternalRAM0End == 53247    \* 0xCFFF
InternalRAM1Start == 53248  \* 0xD000
InternalRAM1End == 57343    \* 0xDFFF
OAMStart == 65024        \* 0xFE00
OAMEnd == 65183          \* 0xFE9F
IOPortsStart == 65280    \* 0xFF00
IOPortsEnd == 65407      \* 0xFF7F
HRAMStart == 65408       \* 0xFF80
HRAMEnd == 65535         \* 0xFFFF

\* the value Read yields when indexing m.rom out of range: a run-time panic
PANIC == -1

\* NewMemory: the ROM slice is kept, every array is zero
NewMemory(rom) ==
    [rom |-> rom, vram |-> ZeroArray, ram |-> ZeroArray, oam |-> ZeroArray,
     io |-> ZeroArray, hram |-> ZeroArray]

\* Memory.Read
Read(m, addr) ==
    CASE addr >= ROMStart /\ addr <= ROMEnd ->
            IF addr < m.rom.len THEN ArrGet(m.rom.data, addr) ELSE PANIC
      [] addr >= VRAMStart /\ addr <= VRAMEnd -> ArrGet(m.vram, addr - 32768)
      [] addr >= ExternalRAMStart /\ addr <= ExternalRAMEnd -> ArrGet(m.ram, addr - 40960)
      [] addr >= InternalRAM0Start /\ addr <= InternalRAM0End -> ArrGet(m.ram, addr - 49152)
      [] addr >= InternalRAM1Start /\ addr <= InternalRAM1End -> ArrGet(m.ram, addr - 53248)
      [] addr >= OAMStart /\ addr <= OAMEnd -> ArrGet(m.oam, addr - 65024)
      [] addr >= IOPortsStart /\ addr <= IOPortsEnd -> ArrGet(m.io, addr - 65280)
      [] addr >= HRAMStart /\ addr <= HRAMEnd -> ArrGet(m.hram, addr - 65408)
      [] OTHER -> 255

\* a Write that stores into the ROM slice instead of discarding the byte
WriteRomWritable(m, addr, value) ==
    CASE addr >= ROMStart /\ addr <= ROMEnd ->
            [m EXCEPT !.rom.data = ArrSet(@, addr, value)]
      [] addr >= VRAMStart /\ addr <= VRAMEnd -> [m EXCEPT !.vram = ArrSet(@, addr - 32768, value)]
      [] addr >= ExternalRAMStart /\ addr <= ExternalRAMEnd -> [m EXCEPT !.ram = ArrSet(@, addr - 40960, value)]
      [] addr >= InternalRAM0Start /\ addr <= InternalRAM0End -> [m EXCEPT !.ram = ArrSet(@, addr - 49152, value)]
      [] addr >= InternalRAM1Start /\ addr <= InternalRAM1End -> [m EXCEPT !.ram = ArrSet(@, addr - 53248, value)]
      [] addr >= OAMStart /\ addr <= OAMEnd -> [m EXCEPT !.oam = ArrSet(@, addr - 65024, value)]
      [] addr >= IOPortsStart /\ addr <= IOPortsEnd -> [m EXCEPT !.io = ArrSet(@, addr - 65280, value)]
      [] addr >= HRAMStart /\ addr <= HRAMEnd -> [m EXCEPT !.hram = ArrSet(@, addr - 65408, value)]
      [] OTHER -> m

\* a Write whose I/O-port case indexes the array with the offset from 0xFF80
WriteIoMisindexed(m, addr, value) ==
    CASE addr >= ROMStart /\ addr <= ROMEnd -> m
      [] addr >= VRAMStart /\ addr <= VRAMEnd -> [m EXCEPT !.vram = ArrSet(@, addr - 32768, value)]
      [] addr >= ExternalRAMStart /\ addr <= ExternalRAMEnd -> [m EXCEPT !.ram = ArrSet(@, addr - 40960, value)]
      [] addr >= InternalRAM0Start /\ addr <= InternalRAM0End -> [m EXCEPT !.ram = ArrSet(@, addr - 49152, value)]
      [] addr >= InternalRAM1Start /\ addr <= InternalRAM1End -> [m EXCEPT !.ram = ArrSet(@, addr - 53248, value)]
      [] addr >= OAMStart /\ addr <= OAMEnd -> [m EXCEPT !.oam = ArrSet(@, addr - 65024, value)]
      [] addr >= IOPortsStart /\ addr <= IOPortsEnd -> [m EXCEPT !.io = ArrSet(@, Wrap16(addr - 65408), value)]
      [] addr >= HRAMStart /\ addr <= HRAMEnd -> [m EXCEPT !.hram = ArrSet(@, addr - 65408, value)]
      [] OTHER -> m

\* a Write whose default case stores the byte of an unmapped address in work RAM
WriteGapEchoed(m, addr, value) ==
    CASE addr >= ROMStart /\ addr <= ROMEnd -> m
      [] addr >= VRAMStart /\ addr <= VRAMEnd -> [m EXCEPT !.vram = ArrSet(@, addr - 32768, value)]
      [] addr >= ExternalRAMStart /\ addr <= ExternalRAMEnd -> [m EXCEPT !.ram = ArrSet(@, addr - 40960, value)]
      [] addr >= InternalRAM0Start /\ addr <= InternalRAM0End -> [m EXCEPT !.ram = ArrSet(@, addr - 49152, value)]
      [] addr >= InternalRAM1Start /\ addr <= InternalRAM1End -> [m EXCEPT !.ram = ArrSet(@, addr - 53248, value)]
      [] addr >= OAMStart /\ addr <= OAMEnd -> [m EXCEPT !.oam = ArrSet(@, addr - 65024, value)]
      [] addr >= IOPortsStart /\ addr <= IOPortsEnd -> [m EXCEPT !.io = ArrSet(@, addr - 65280, value)]
      [] addr >= HRAMStart /\ addr <= HRAMEnd -> [m EXCEPT !.hram = ArrSet(@, addr - 65408, value)]
      [] OTHER -> [m EXCEPT !.ram = ArrSet(@, addr % 8192, value)]

\* Memory.Write
Write(m, addr, value) ==
    CASE addr >= ROMStart /\ addr <= ROMEnd -> m
      [] addr >= VRAMStart /\ addr <= VRAMEnd -> [m EXCEPT !.vram = ArrSet(@, addr - 32768, value)]
      [] addr >= ExternalRAMStart /\ addr <= ExternalRAMEnd -> [m EXCEPT !.ram = ArrSet(@, addr - 40960, value)]
      [] addr >= InternalRAM0Start /\ addr <= InternalRAM0End -> [m EXCEPT !.ram = ArrSet(@, addr - 49152, value)]
      [] addr >= InternalRAM1Start /\ addr <= InternalRAM1End -> [m EXCEPT !.ram = ArrSet(@, addr - 53248, value)]
      [] addr >= OAMStart /\ addr <= OAMEnd -> [m EXCEPT !.oam = ArrSet(@, addr - 65024, value)]
      [] addr >= IOPortsStart /\ addr <= IOPortsEnd -> [m EXCEPT !.io = ArrSet(@, addr - 65280, value)]
      [] addr >= HRAMStart /\ addr <= HRAMEnd -> [m EXCEPT !.hram = ArrSet(@, addr - 65408, value)]
      [] OTHER -> m

----------------------------------------------------------------------------
(* cpu.go: registers, flags and arithmetic *)

FlagZ == 128   \* 0x80
FlagN == 64    \* 0x40
FlagH == 32    \* 0x20
FlagC == 16    \* 0x10

\* NewCPU
NewCPU ==
    [A |-> 0, F |-> 0, B |-> 0, C |-> 0, D |-> 0, E |-> 0, H |-> 0, L |-> 0,
     SP |-> 65534,    \* 0xFFFE
     PC |-> 256,      \* 0x0100
     Cycles |-> 0, IM |-> 0, Timer |-> 0]

SetZeroFlag(c) == [c EXCEPT !.F = BitOr(@, FlagZ)]

ClearZeroFlag(c) == [c EXCEPT !.F = BitAndNot(@, FlagZ)]

\* a SetCarryFlag whose mask is 0x01 instead of 0x10
SetCarryFlagLowBit(c) == [c EXCEPT !.F = BitOr(@, 1)]

SetCarryFlag(c) == [c EXCEPT !.F = BitOr(@, FlagC)]

ClearCarryFlag(c) == [c EXCEPT !.F = BitAndNot(@, FlagC)]

SetZeroFlagIfNeeded(c, value) ==
    IF value = 0 THEN SetZeroFlag(c) ELSE ClearZeroFlag(c)

\* an Add that takes a sum of exactly 0xFF for an overflow
AddCarryOffByOne(c, value) ==
    LET result == c.A + value
        c1 == IF result >= 255 THEN SetCarryFlag(c) ELSE ClearCarryFlag(c)
        c2 == [c1 EXCEPT !.A = Byte(result)]
    IN SetZeroFlagIfNeeded(c2, c2.A)

\* CPU.Add (cpu.go:293-302): the sum is formed in uint16
Add(c, value) ==
    LET result == c.A + value
        c1 == IF result > 255 THEN SetCarryFlag(c) ELSE ClearCarryFlag(c)
        c2 == [c1 EXCEPT !.A = Byte(result)]
    IN SetZeroFlagIfNeeded(c2, c2.A)

\* a Sub whose difference is truncated to a byte before the flag tests
SubByteWide(c, value) ==
    LET result == Byte(c.A - value)
        c1 == IF result = 0 THEN SetZeroFlag(c) ELSE ClearZeroFlag(c)
        c2 == IF result > 255 THEN SetCarryFlag(c1) ELSE ClearCarryFlag(c1)
    IN [c2 EXCEPT !.A = Byte(result)]

\* CPU.Sub (cpu.go:305-318): the difference is formed in wrapping uint16
Sub(c, value) ==
    LET result == Wrap16(c.A - value)
        c1 == IF result = 0 THEN SetZeroFlag(c) ELSE ClearZeroFlag(c)
        c2 == IF result > 255 THEN SetCarryFlag(c1) ELSE ClearCarryFlag(c1)
    IN [c2 EXCEPT !.A = Byte(result)]

\* a truncated-comparison Add whose test is result <= cpu.A
AddTruncatedOrEqual(c, value) ==
    LET result == Byte(c.A + value)
        c1 == IF result = 0 THEN SetZeroFlag(c) ELSE ClearZeroFlag(c)
        c2 == IF result <= c.A THEN SetCarryFlag(c1) ELSE ClearCarryFlag(c1)
    IN [c2 EXCEPT !.A = result]

\* CPU.Add of cpu.go:878-891: the sum is formed in a byte and Carry is result < cpu.A
AddTruncated(c, value) ==
    LET result == Byte(c.A + value)
        c1 == IF result = 0 THEN SetZeroFlag(c) ELSE ClearZeroFlag(c)
        c2 == IF result < c.A THEN SetCarryFlag(c1) ELSE ClearCarryFlag(c1)
    IN [c2 EXCEPT !.A = result]

----------------------------------------------------------------------------
(* cpu.go: the stack.  Push and Pop take the Memory struct BY VALUE          *)
(* (parameter type memory.Memory, cpu.go:321 and 327): the callee works on   *)
(* a copy of the caller's arrays.  The operators return the callee's copy in *)
(* the field "memory"; what the caller keeps is decided by the actions.      *)

\* a Push that lowers SP by one byte only
PushOneByte(c, value, memory) ==
    LET c1 == [c EXCEPT !.SP = Wrap16(@ - 1)]
        m1 == Write(memory, c1.SP, Byte(value))
        m2 == Write(m1, Wrap16(c1.SP + 1), value \div 256)
    IN [cpu |-> c1, memory |-> m2]

\* CPU.Push
Push(c, value, memory) ==
    LET c1 == [c EXCEPT !.SP = Wrap16(@ - 2)]
        m1 == Write(memory, c1.SP, Byte(value))
        m2 == Write(m1, Wrap16(c1.SP + 1), value \div 256)
    IN [cpu |-> c1, memory |-> m2]

\* a Pop that takes the byte at SP for the high byte
PopBigEndian(c, memory) ==
    LET hi == Read(memory, c.SP)
        lo == Read(memory, Wrap16(c.SP + 1))
    IN IF lo = PANIC \/ hi = PANIC
       THEN [cpu |-> c, value |-> 0, panic |-> TRUE]
       ELSE [cpu |-> [c EXCEPT !.SP = Wrap16(@ + 2)], value |-> lo + hi * 256, panic |-> FALSE]

\* CPU.Pop; panic tells that one of its two reads indexed the ROM slice out of range
Pop(c, memory) ==
    LET lo == Read(memory, c.SP)
        hi == Read(memory, Wrap16(c.SP + 1))
    IN IF lo = PANIC \/ hi = PANIC
       THEN [cpu |-> c, value |-> 0, panic |-> TRUE]
       ELSE [cpu |-> [c EXCEPT !.SP = Wrap16(@ + 2)], value |-> lo + hi * 256, panic |-> FALSE]

----------------------------------------------------------------------------
(* cpu.go: Execute (cpu.go:49-264).  The result holds the CPU after the      *)
(* step, Execute's own copy of the Memory (its parameter is passed by value  *)
(* too, cpu.go:49) and whether a read panicked.  Every handler does its bus  *)
(* reads before it changes a register other than PC, so a panicking step     *)
(* leaves the CPU as it was right after the opcode fetch.                    *)

Stepped(c, memory) == [cpu |-> c, memory |-> memory, panic |-> FALSE]

Crashed(c, memory) == [cpu |-> c, memory |-> memory, panic |-> TRUE]

\* a cycle update that assigns the cost instead of adding it
CycleAssigned(c, n) == [c EXCEPT !.Cycles = n]

Cycle(c, n) == [c EXCEPT !.Cycles = @ + n]

ZeroSet(c) == BitAnd(c.F, FlagZ) # 0

CarrySet(c) == BitAnd(c.F, FlagC) # 0

\* JP a16 and JP cc, a16
\* a JP cc whose fall-through path leaves PC at the operand bytes
ExecJPNoSkip(c, memory, taken) ==
    LET lo == Read(memory, c.PC)
        hi == Read(memory, Wrap16(c.PC + 1))
    IN IF lo = PANIC \/ hi = PANIC THEN Crashed(c, memory)
       ELSE IF taken
            THEN Stepped(Cycle([c EXCEPT !.PC = lo + hi * 256], 16), memory)
            ELSE Stepped(Cycle(c, 12), memory)

ExecJP(c, memory, taken) ==
    LET lo == Read(memory, c.PC)
        hi == Read(memory, Wrap16(c.PC + 1))
    IN IF lo = PANIC \/ hi = PANIC THEN Crashed(c, memory)
       ELSE IF taken
            THEN Stepped(Cycle([c EXCEPT !.PC = lo + hi * 256], 16), memory)
            ELSE Stepped(Cycle([c EXCEPT !.PC = Wrap16(@ + 2)], 12), memory)

\* JR r8: cpu.PC += uint16(offset) + 1
ExecJR(c, memory) ==
    LET b == Read(memory, c.PC)
    IN IF b = PANIC THEN Crashed(c, memory)
       ELSE Stepped(Cycle([c EXCEPT !.PC = Wrap16(@ + Wrap16(Uint16OfInt8(Int8(b)) + 1))], 12),
                    memory)

\* JR cc, r8: if taken, cpu.PC += uint16(offset); then cpu.PC++
ExecJRcc(c, memory, taken) ==
    LET b == Read(memory, c.PC)
        c1 == IF taken THEN [c EXCEPT !.PC = Wrap16(@ + Uint16OfInt8(Int8(b)))] ELSE c
    IN IF b = PANIC THEN Crashed(c, memory)
       ELSE Stepped(Cycle([c1 EXCEPT !.PC = Wrap16(@ + 1)], 12), memory)

\* a CALL whose Push stores into the Memory of Execute itself
ExecCALLSharedMemory(c, memory, taken) ==
    LET lo == Read(memory, c.PC)
        hi == Read(memory, Wrap16(c.PC + 1))
        pushed == Push(c, c.PC, memory)
    IN IF lo = PANIC \/ hi = PANIC THEN Crashed(c, memory)
       ELSE IF taken
            THEN Stepped(Cycle([pushed.cpu EXCEPT !.PC = lo + hi * 256], 24), pushed.memory)
            ELSE Stepped(Cycle([c EXCEPT !.PC = Wrap16(@ + 2)], 12), memory)

\* CALL a16 and CALL cc, a16: cpu.Push(cpu.PC, memory) with PC still at the operand
ExecCALL(c, memory, taken) ==
    LET lo == Read(memory, c.PC)
        hi == Read(memory, Wrap16(c.PC + 1))
        pushed == Push(c, c.PC, memory)
    IN IF lo = PANIC \/ hi = PANIC THEN Crashed(c, memory)
       ELSE IF taken
            THEN \* Push got a copy of Execute's Memory: Execute's own copy is unchanged
                 Stepped(Cycle([pushed.cpu EXCEPT !.PC = lo + hi * 256], 24), memory)
            ELSE Stepped(Cycle([c EXCEPT !.PC = Wrap16(@ + 2)], 12), memory)

\* RET, RETI and RET cc
ExecRET(c, memory, taken) ==
    LET popped == Pop(c, memory)
    IN IF ~taken THEN Stepped(Cycle(c, 8), memory)
       ELSE IF popped.panic THEN Crashed(c, memory)
       ELSE Stepped(Cycle([popped.cpu EXCEPT !.PC = popped.value], 16), memory)

\* AND r, AND (HL), OR r, OR (HL): operand is the byte combined with A
ExecLogic(c, memory, op, operand, cycles) ==
    IF operand = PANIC THEN Crashed(c, memory)
    ELSE LET c1 == [c EXCEPT !.A = IF op = "and" THEN BitAnd(@, operand) ELSE BitOr(@, operand)]
             c2 == ClearCarryFlag(c1)
             c3 == SetZeroFlagIfNeeded(c2, c2.A)
         IN Stepped(Cycle(c3, cycles), memory)

\* the 0xCB page: BIT 0,B / BIT 0,C / BIT 0,D; any other second byte is not consumed
ExecCB(c, memory) ==
    LET sub == Read(memory, c.PC)
        bit0(r) == Stepped([Cycle(SetZeroFlagIfNeeded(c, BitAnd(r, 1)), 8)
                               EXCEPT !.PC = Wrap16(@ + 1)], memory)
    IN CASE sub = PANIC -> Crashed(c, memory)
         [] sub = 64 -> bit0(c.B)     \* 0x40
         [] sub = 65 -> bit0(c.C)     \* 0x41
         [] sub = 66 -> bit0(c.D)     \* 0x42
         [] OTHER -> Stepped(c, memory)

\* an unknown opcode decoded as a four-cycle no-operation
ExecUnknownAsNop(c, memory) == Stepped(Cycle(c, 4), memory)

\* the default case of the switch: a message is printed, nothing else happens
ExecUnknown(c, memory) == Stepped(c, memory)

\* the opcodes the switch of Execute has a case for
DefinedOpcodes ==
    {195, 194, 218, 24, 32, 40, 205, 196, 204, 62, 198, 201, 217, 192, 200, 208, 216,
     164, 165, 166, 176, 177, 178, 179, 180, 181, 182, 203}

HL(c) == c.H * 256 + c.L

\* CPU.Execute
Execute(c0, memory) ==
    LET opcode == Read(memory, c0.PC)
        c == [c0 EXCEPT !.PC = Wrap16(@ + 1)]
        d8 == Read(memory, c.PC)
    IN CASE opcode = PANIC -> Crashed(c0, memory)
         [] opcode = 195 -> ExecJP(c, memory, TRUE)                    \* 0xC3 JP a16
         [] opcode = 194 -> ExecJP(c, memory, ~ZeroSet(c))             \* 0xC2 JP NZ
         [] opcode = 218 -> ExecJP(c, memory, ZeroSet(c))              \* 0xDA "JP Z"
         [] opcode = 24 -> ExecJR(c, memory)                           \* 0x18 JR r8
         [] opcode = 32 -> ExecJRcc(c, memory, ~ZeroSet(c))            \* 0x20 JR NZ
         [] opcode = 40 -> ExecJRcc(c, memory, ZeroSet(c))             \* 0x28 JR Z
         [] opcode = 205 -> ExecCALL(c, memory, TRUE)                  \* 0xCD CALL a16
         [] opcode = 196 -> ExecCALL(c, memory, ~ZeroSet(c))           \* 0xC4 CALL NZ
         [] opcode = 204 -> ExecCALL(c, memory, ZeroSet(c))            \* 0xCC CALL Z
         [] opcode = 62 ->                                             \* 0x3E LD A, d8
                IF d8 = PANIC THEN Crashed(c, memory)
                ELSE Stepped(Cycle([c EXCEPT !.A = d8, !.PC = Wrap16(@ + 1)], 8), memory)
         [] opcode = 198 ->                                            \* 0xC6 ADD A, d8
                IF d8 = PANIC THEN Crashed(c, memory)
                ELSE Stepped(Cycle([Add(c, d8) EXCEPT !.PC = Wrap16(@ + 1)], 8), memory)
         [] opcode = 201 -> ExecRET(c, memory, TRUE)                   \* 0xC9 RET
         [] opcode = 217 -> ExecRET(c, memory, TRUE)                   \* 0xD9 RETI
         [] opcode = 192 -> ExecRET(c, memory, ~ZeroSet(c))            \* 0xC0 RET NZ
         [] opcode = 200 -> ExecRET(c, memory, ZeroSet(c))             \* 0xC8 RET Z
         [] opcode = 208 -> ExecRET(c, memory, ~CarrySet(c))           \* 0xD0 RET NC
         [] opcode = 216 -> ExecRET(c, memory, CarrySet(c))            \* 0xD8 RET C
         [] opcode = 164 -> ExecLogic(c, memory, "and", c.B, 4)        \* 0xA4 AND B
         [] opcode = 165 -> ExecLogic(c, memory, "and", c.C, 4)        \* 0xA5 AND C
         [] opcode = 166 -> ExecLogic(c, memory, "and", Read(memory, HL(c)), 8)  \* 0xA6 AND (HL)
         [] opcode = 176 -> ExecLogic(c, memory, "or", c.B, 4)         \* 0xB0 OR B
         [] opcode = 177 -> ExecLogic(c, memory, "or", c.C, 4)         \* 0xB1 OR C
         [] opcode = 178 -> ExecLogic(c, memory, "or", c.D, 4)         \* 0xB2 OR D
         [] opcode = 179 -> ExecLogic(c, memory, "or", c.E, 4)         \* 0xB3 OR E
         [] opcode = 180 -> ExecLogic(c, memory, "or", c.H, 4)         \* 0xB4 OR H
         [] opcode = 181 -> ExecLogic(c, memory, "or", c.L, 4)         \* 0xB5 OR L
         [] opcode = 182 -> ExecLogic(c, memory, "or", Read(memory, HL(c)), 8)   \* 0xB6 OR (HL)
         [] opcode = 203 -> ExecCB(c, memory)                          \* 0xCB prefix
         [] OTHER -> ExecUnknown(c, memory)                            \* unknown opcode: message only

----------------------------------------------------------------------------
(* Bounds and input sets *)

MaxBusOps == 2     \* Memory.Write calls in a run of SpecBus
MaxStackOps == 3   \* operations in a run of SpecStack
MaxSteps == 3      \* operations in a run of Spec

Bytes == 0 .. 255

\* addresses at the edges of every region of the map and of the unmapped ranges
ProbeAddrs ==
    {0, 5, 32767,          \* ROM 0x0000, 0x0005, 0x7FFF
     32768, 40959,         \* VRAM 0x8000, 0x9FFF
     40960, 45056, 49151,  \* external RAM 0xA000, 0xB000, 0xBFFF
     49152, 53247,         \* work RAM 0 0xC000, 0xCFFF
     53248, 57343,         \* work RAM 1 0xD000, 0xDFFF
     57344, 65023,         \* unmapped 0xE000, 0xFDFF
     65024, 65183,         \* OAM 0xFE00, 0xFE9F
     65184, 65279,         \* unmapped 0xFEA0, 0xFEFF
     65280, 65295, 65407,  \* I/O 0xFF00, 0xFF0F, 0xFF7F
     65408, 65532, 65533, 65534, 65535}   \* high RAM 0xFF80, 0xFFFC .. 0xFFFF

\* the addresses SpecBus writes to
WriteAddrs ==
    {0, 32767, 32768, 40960, 49151, 49152, 53247, 53248, 57343, 57344, 65184,
     65024, 65280, 65535}

WriteVals == {0, 90, 255}    \* 0x00, 0x5A, 0xFF

\* the five-byte sample image of main.go:129-135
SampleROM == Slice(5, (0 :> 62) @@ (1 :> 16) @@ (2 :> 198) @@ (3 :> 2) @@ (4 :> 201))

\* a 32 KiB cartridge image with bytes at both ends
FullROM == Slice(32768, (0 :> 62) @@ (5 :> 119) @@ (32767 :> 201))

RomImages == {SampleROM, FullROM}

IsROM(a) == a >= ROMStart /\ a <= ROMEnd

\* the read/write regions of the map
IsRW(a) ==
    \/ a >= VRAMStart /\ a <= VRAMEnd
    \/ a >= ExternalRAMStart /\ a <= InternalRAM1End
    \/ a >= OAMStart /\ a <= OAMEnd
    \/ a >= IOPortsStart /\ a <= HRAMEnd

\* the addresses no case of Read or Write names
IsUnmapped(a) == a \in 0 .. 65535 /\ ~IsROM(a) /\ ~IsRW(a)

----------------------------------------------------------------------------
(* History *)

Started(c, m) ==
    [op |-> "init", addr |-> 0, value |-> 0, result |-> 0, taken |-> FALSE,
     cpu |-> c, mem |-> m, local |-> m,
     prev |-> [op |-> "none", value |-> 0, cpu |-> c]]

Did(op, addr, value, result, taken, local) ==
    [op |-> op, addr |-> addr, value |-> value, result |-> result, taken |-> taken,
     cpu |-> cpu, mem |-> mem, local |-> local,
     prev |-> [op |-> last.op, value |-> last.value, cpu |-> last.cpu]]

\* the same record for the arithmetic calls, which keep no history beyond the call itself
DidAlu(op, value) ==
    [op |-> op, addr |-> 0, value |-> value, result |-> 0, taken |-> FALSE,
     cpu |-> cpu, mem |-> mem, local |-> mem,
     prev |-> [op |-> "none", value |-> 0, cpu |-> cpu]]

----------------------------------------------------------------------------
(* Actions *)

\* a driver or peripheral calls mem.Write(addr, value) on the *Memory it owns
MemWrite(addr, value) ==
    /\ ~panicked
    /\ mem' = Write(mem, addr, value)
    /\ last' = Did("Write", addr, value, 0, FALSE, mem')
    /\ nops' = nops + 1
    /\ UNCHANGED <<ROMData, cpu, panicked, addend>>

\* cpu.Add(value)
CpuAdd(value) ==
    /\ ~panicked
    /\ cpu' = Add(cpu, value)
    /\ last' = DidAlu("Add", value)
    /\ UNCHANGED <<ROMData, mem, panicked, addend, nops>>

\* cpu.Add(value) of the truncated-comparison variant
CpuAddTruncated(value) ==
    /\ ~panicked
    /\ cpu' = AddTruncated(cpu, value)
    /\ last' = DidAlu("AddTruncated", value)
    /\ UNCHANGED <<ROMData, mem, panicked, addend, nops>>

\* cpu.Sub(value)
CpuSub(value) ==
    /\ ~panicked
    /\ cpu' = Sub(cpu, value)
    /\ last' = DidAlu("Sub", value)
    /\ UNCHANGED <<ROMData, mem, panicked, addend, nops>>

\* cpu.Push(value, mem): the Memory argument is copied, the caller's is untouched
CpuPush(value) ==
    /\ ~panicked
    /\ LET r == Push(cpu, value, mem)
       IN /\ cpu' = r.cpu
          /\ last' = Did("Push", r.cpu.SP, value, 0, FALSE, r.memory)
    /\ nops' = nops + 1
    /\ UNCHANGED <<ROMData, mem, panicked, addend>>

\* cpu.Pop(mem)
CpuPop ==
    /\ ~panicked
    /\ LET r == Pop(cpu, mem)
       IN /\ cpu' = r.cpu
          /\ panicked' = r.panic
          /\ last' = Did("Pop", cpu.SP, 0, r.value, FALSE, mem)
    /\ nops' = nops + 1
    /\ UNCHANGED <<ROMData, mem, addend>>

\* the opcode a step at c fetches, and whether its condition holds
OpcodeAt(c, m) == Read(m, c.PC)

Taken(c, opcode) ==
    CASE opcode \in {194, 32, 196, 192} -> ~ZeroSet(c)
      [] opcode \in {218, 40, 204, 200} -> ZeroSet(c)
      [] opcode = 208 -> ~CarrySet(c)
      [] opcode = 216 -> CarrySet(c)
      [] OTHER -> TRUE

\* cpu.Execute(mem): the Memory argument is copied, the caller's is untouched
Step ==
    /\ ~panicked
    /\ LET r == Execute(cpu, mem)
           opcode == OpcodeAt(cpu, mem)
       IN /\ cpu' = r.cpu
          /\ panicked' = r.panic
          /\ last' = Did("Execute", cpu.PC, opcode, 0, Taken(cpu, opcode), r.memory)
    /\ nops' = nops + 1
    /\ UNCHANGED <<ROMData, mem, addend>>

----------------------------------------------------------------------------
(* SpecBus: a Memory and the writes made to it *)

InitBus ==
    /\ ROMData \in RomImages
    /\ mem = NewMemory(ROMData)
    /\ cpu = NewCPU
    /\ panicked = FALSE
    /\ addend = 0
    /\ nops = 0
    /\ last = Started(cpu, mem)

NextBus == \E addr \in WriteAddrs, value \in WriteVals : nops < MaxBusOps /\ MemWrite(addr, value)

SpecBus == InitBus /\ [][NextBus]_vars

----------------------------------------------------------------------------
(* SpecAdd: every accumulator value and every operand byte under repeated Add *)

AluFlags == {0, 240}     \* 0x00: every flag clear, 0xF0: every flag set

InitAdd ==
    /\ ROMData = SampleROM
    /\ mem = NewMemory(ROMData)
    /\ cpu \in {[NewCPU EXCEPT !.A = a, !.F = f] : a \in Bytes, f \in AluFlags}
    /\ panicked = FALSE
    /\ addend \in Bytes
    /\ nops = 0
    /\ last = Started(cpu, mem)

NextAdd == CpuAdd(addend)

SpecAdd == InitAdd /\ [][NextAdd]_vars

\* SpecAddTruncated: the same accumulators, flags and operands, under the
\* truncated-comparison Add
NextAddTruncated == CpuAddTruncated(addend)

SpecAddTruncated == InitAdd /\ [][NextAddTruncated]_vars

\* SpecSub: the same accumulators, flags and operands, under repeated cpu.Sub
NextSub == CpuSub(addend)

SpecSub == InitAdd /\ [][NextSub]_vars

----------------------------------------------------------------------------
(* SpecStack: Push and Pop over a bus that a driver has written to *)

StackTops == {65534, 0, 1, 2, 32769, 32770, 49154, 53248, 65185, 65281}
    \* 0xFFFE, 0x0000, 0x0001, 0x0002, 0x8001, 0x8002, 0xC002, 0xD000, 0xFEA1, 0xFF01

PushVals == {0, 4660, 65535, 255}    \* 0x0000, 0x1234, 0xFFFF, 0x00FF

StackWrites == {<<65532, 205>>, <<49152, 171>>}     \* 0xFFFC := 0xCD, 0xC000 := 0xAB

InitStack ==
    /\ ROMData = FullROM
    /\ mem = NewMemory(ROMData)
    /\ cpu \in {[NewCPU EXCEPT !.SP = sp] : sp \in StackTops}
    /\ panicked = FALSE
    /\ addend = 0
    /\ nops = 0
    /\ last = Started(cpu, mem)

NextStack ==
    \/ \E value \in PushVals : nops < MaxStackOps /\ CpuPush(value)
    \/ nops < MaxStackOps /\ CpuPop
    \/ \E w \in StackWrites : nops < MaxStackOps /\ MemWrite(w[1], w[2])

SpecStack == InitStack /\ [][NextStack]_vars

----------------------------------------------------------------------------
(* Spec: a CPU stepping through a program.  The driver builds the Memory,    *)
(* sets exported CPU fields (main.go:33 sets PC, main.go:86 sets A), may     *)
(* write bus bytes as a peripheral would, and calls Execute.  No instruction *)
(* of Execute writes IM: a driver's assignment is the only way it is set.    *)

\* one instruction, as <<opcode, second byte, third byte>>
Programs ==
    {<<op, 0, 3>> : op \in {195, 194, 218, 205, 196, 204}}            \* target 0x0300
    \cup {<<op, 255, 192>> : op \in {195, 194, 218, 205, 196, 204}}   \* target 0xC0FF
    \cup {<<op, o, 0>> : op \in {24, 32, 40, 62, 198}, o \in {0, 2, 127, 128, 254, 255}}
    \cup {<<203, sub, 0>> : sub \in {64, 65, 66, 67}}
    \cup {<<op, 0, 0>> : op \in {201, 217, 192, 200, 208, 216, 164, 165, 166,
                                 176, 177, 178, 179, 180, 181, 182, 0, 255}}

EntryPoints == {512, 65533}     \* 0x0200 in ROM, 0xFFFD in high RAM

\* a 32 KiB cartridge with a RET at 0x0300 and, if x is a ROM address, the program at x
Cartridge(x, prog) ==
    LET base == (768 :> 201)
    IN Slice(32768,
             IF IsROM(x)
             THEN ArrSet(ArrSet(ArrSet(base, x, prog[1]), x + 1, prog[2]), x + 2, prog[3])
             ELSE base)

\* the driver stores the program byte by byte, as main.go:79-83 does
LoadProgram(m, x, prog) ==
    Write(Write(Write(m, x, prog[1]), Wrap16(x + 1), prog[2]), Wrap16(x + 2), prog[3])

StartFlags == {0, 128, 112}     \* 0x00, Z alone, N+H+C without Z

\* register contents a driver sets before stepping
RegFiles ==
    {[A |-> 0, B |-> 0, C |-> 0, D |-> 0, E |-> 0, H |-> 0, L |-> 0],
     [A |-> 90, B |-> 15, C |-> 165, D |-> 1, E |-> 2, H |-> 192, L |-> 0]}

\* bus bytes a peripheral or the driver sets: IE (0xFFFF) and IF (0xFF0F) to 0x01
DriverWrites == {<<65535, 1>>, <<65295, 1>>}

Init ==
    /\ \E x \in EntryPoints, prog \in Programs, f \in StartFlags, im \in {0, 1}, r \in RegFiles :
          /\ ROMData = Cartridge(x, prog)
          /\ mem = LoadProgram(NewMemory(ROMData), x, prog)
          /\ cpu = [NewCPU EXCEPT !.PC = x, !.F = f, !.IM = im,
                                  !.A = r.A, !.B = r.B, !.C = r.C, !.D = r.D, !.E = r.E,
                                  !.H = r.H, !.L = r.L]
    /\ panicked = FALSE
    /\ addend = 0
    /\ nops = 0
    /\ last = Started(cpu, mem)

Next ==
    \/ nops < MaxSteps /\ Step
    \/ \E w \in DriverWrites : nops < MaxSteps /\ MemWrite(w[1], w[2])

Spec == Init /\ [][Next]_vars

----------------------------------------------------------------------------
(* Properties of the bus (SpecBus) *)

\* C1: Memory.Write(addr, v) changes at most the byte read back at addr: every
\* other address reads the same after the write as before it.
C1_WriteChangesOnlyAddr ==
    last.op = "Write" =>
        \A a2 \in ProbeAddrs \ {last.addr} : Read(mem, a2) = Read(last.mem, a2)

\* C6: whatever Memory.Write calls were made, every ROM address the image covers
\* reads the byte of the original image.
C6_RomReadsOriginal ==
    \A a \in ProbeAddrs :
        (IsROM(a) /\ a < ROMData.len) => Read(mem, a) = ArrGet(ROMData.data, a)

\* a write of a byte other than the image's to a covered ROM address, after an earlier write
C6_Witness ==
    /\ last.op = "Write" /\ last.prev.op = "Write"
    /\ IsROM(last.addr) /\ last.addr < ROMData.len
    /\ last.value # ArrGet(ROMData.data, last.addr)

\* C7: in a read/write region, Write(addr, v) immediately followed by Read(addr)
\* yields v.
C7_WriteReadRoundTrip ==
    (last.op = "Write" /\ IsRW(last.addr)) => Read(mem, last.addr) = last.value

\* a write to work RAM 1 that replaces a non-zero byte by a different one
C7_Witness ==
    /\ last.op = "Write" /\ last.addr = 53248
    /\ Read(last.mem, 53248) = 90 /\ last.value = 255

\* C8: an address of no region reads 0xFF after any writes, and a write to such an
\* address changes no byte readable anywhere.
C8_UnmappedInert ==
    /\ \A a \in ProbeAddrs : IsUnmapped(a) => Read(mem, a) = 255
    /\ (last.op = "Write" /\ IsUnmapped(last.addr)) =>
           \A a \in ProbeAddrs : Read(mem, a) = Read(last.mem, a)

\* a write of a byte other than 0xFF to 0xFEA0, after a write to 0xE000
C8_Witness ==
    /\ last.op = "Write" /\ last.addr = 65184 /\ last.value = 90
    /\ last.prev.op = "Write" /\ Read(mem, 65184) = 255

----------------------------------------------------------------------------
(* Properties of Add (SpecAdd) *)

\* C3: Add(b) with A = a leaves A = (a+b) mod 256, Zero set iff that is 0 and Carry
\* set iff a+b > 255, whatever the flags were before.
C3_AddResultZeroCarry ==
    last.op = "Add" =>
        LET a == last.cpu.A
            b == last.value
        IN /\ cpu.A = (a + b) % 256
           /\ ZeroSet(cpu) <=> ((a + b) % 256 = 0)
           /\ CarrySet(cpu) <=> (a + b > 255)

\* 0xFF + 0x01 from clear flags: the sum wraps to zero with a carry
C3_Witness ==
    /\ last.op = "Add" /\ last.cpu.A = 255 /\ last.value = 1 /\ last.cpu.F = 0
    /\ cpu.A = 0 /\ cpu.F = 144

\* C4: after Add(b) with A = a the Half-carry flag is set iff (a & 0xF) + (b & 0xF) > 15.
C4_AddHalfCarry ==
    last.op = "Add" =>
        ((BitAnd(cpu.F, FlagH) # 0) <=> ((last.cpu.A % 16) + (last.value % 16) > 15))

----------------------------------------------------------------------------
(* Properties of the stack (SpecStack) *)

\* C5: if SP-2 and SP-1 lie in read/write regions, Push(v) followed by Pop returns v
\* and leaves SP as before the pair; Push lowers SP by 2 and Pop raises it by 2.
C5_PushPopRoundTrip ==
    /\ (last.op = "Push") => cpu.SP = Wrap16(last.cpu.SP - 2)
    /\ (last.op = "Pop" /\ ~panicked) => cpu.SP = Wrap16(last.cpu.SP + 2)
    /\ (/\ last.op = "Pop" /\ last.prev.op = "Push"
        /\ IsRW(Wrap16(last.prev.cpu.SP - 2)) /\ IsRW(Wrap16(last.prev.cpu.SP - 1)))
       => (last.result = last.prev.value /\ cpu.SP = last.prev.cpu.SP)

----------------------------------------------------------------------------
(* Properties of Execute (Spec) *)

\* the 16-bit value on top of the stack: low byte at SP, high byte at SP+1
StackTop(c, m) == Read(m, c.SP) + 256 * Read(m, Wrap16(c.SP + 1))

\* C2: after CALL a16, or a taken CALL NZ / CALL Z, fetched at X, the value on top
\* of the stack is X+3, so that a RET executed next sets PC to X+3.
C2_CallPushesReturnAddress ==
    /\ (last.op = "Execute" /\ last.value \in {205, 196, 204} /\ last.taken /\ ~panicked)
       => StackTop(cpu, mem) = Wrap16(last.addr + 3)
    /\ (/\ last.op = "Execute" /\ last.value = 201 /\ ~panicked
        /\ last.prev.op = "Execute" /\ last.prev.value \in {205, 196, 204}
        /\ last.cpu.SP = Wrap16(last.prev.cpu.SP - 2))
       => cpu.PC = Wrap16(last.prev.cpu.PC + 3)

\* the value of an offset byte o read as a signed number in -128 .. 127
SignedOffset(o) == o - 256 * (o \div 128)

\* C9: JR r8, or a taken JR NZ / JR Z, fetched at X with offset byte o leaves
\* PC = (X + 2 + o) mod 2^16, o signed; a branch not taken leaves PC = X + 2.
C9_RelativeJump ==
    (last.op = "Execute" /\ last.value \in {24, 32, 40} /\ ~panicked) =>
        LET X == last.addr
            o == Read(last.mem, Wrap16(X + 1))
        IN cpu.PC = IF last.taken THEN (X + 2 + SignedOffset(o)) % 65536
                    ELSE Wrap16(X + 2)

\* a taken JR NZ at 0xFFFD with offset 0x80: PC = 0xFFFD + 2 - 128 = 0xFF7F
C9_Witness ==
    /\ last.op = "Execute" /\ last.value = 32 /\ last.taken /\ ~panicked
    /\ last.addr = 65533 /\ Read(last.mem, 65534) = 128
    /\ cpu.PC = 65407

\* C10: with IM set, IE = IF = 0x01 and PC = 0x0200, the next step pushes 0x0200,
\* clears IM and clears bit 0 of IF (and vectors instead of executing the
\* instruction at 0x0200).
C10_InterruptDispatch ==
    (/\ last.op = "Execute" /\ ~panicked
     /\ last.cpu.IM = 1 /\ last.cpu.PC = 512
     /\ Read(last.mem, 65535) = 1 /\ Read(last.mem, 65295) = 1)
    => /\ cpu.IM = 0
       /\ Bit(Read(mem, 65295), 0) = 0
       /\ cpu.SP = Wrap16(last.cpu.SP - 2)
       /\ StackTop(cpu, mem) = 512


\* what the caller of Execute gets back: the method has no result, so a call either
\* returns (nothing) or the process panics
Outcome(r) == IF r.panic THEN "panic" ELSE "returned"

\* the secondary opcodes the 0xCB page has a case for
DefinedCB == {64, 65, 66}

\* the last operation was a step that fetched an opcode the main switch has no case for
UnknownOpcodeStep == last.op = "Execute" /\ ~panicked /\ last.value \notin DefinedOpcodes

\* the last operation was a step that fetched 0xCB followed by a byte the page has no case for
UnknownCBStep ==
    /\ last.op = "Execute" /\ ~panicked /\ last.value = 203
    /\ Read(last.mem, Wrap16(last.addr + 1)) \notin DefinedCB

\* C11: a step that fetches an opcode with no defined semantics (also behind the
\* 0xCB prefix) yields an error outcome to its caller, which tells it from a
\* successful step.
C11_UnknownOpcodeSurfaced ==
    (UnknownOpcodeStep \/ UnknownCBStep) =>
        Outcome(Execute(last.cpu, last.mem)) = "error"

\* C12: a step that fetches an undefined opcode at X leaves registers, flags, SP,
\* Cycles, IM and the bus as they were; only PC changes, to X+1.
C12_UnknownOpcodeOnlyAdvancesPC ==
    UnknownOpcodeStep =>
        /\ cpu = [last.cpu EXCEPT !.PC = Wrap16(last.addr + 1)]
        /\ mem = last.mem

\* opcode 0xFF fetched at 0xFFFD with registers and flags set
C12_Witness ==
    /\ UnknownOpcodeStep /\ last.value = 255 /\ last.addr = 65533
    /\ last.cpu.A = 90 /\ last.cpu.F = 112
    /\ cpu.PC = 65534

----------------------------------------------------------------------------
(* SpecScenario: reset at 0x0100 over LD A,n / ADD A,m / RET, with a return  *)
(* address stored where SP points                                            *)

MaxScenarioSteps == 3    \* Execute calls in a run of SpecScenario

ScenarioLoads == {0, 10, 16, 127, 128, 255}     \* n of LD A, n
ScenarioAddends == {0, 1, 2, 128, 246, 255}     \* m of ADD A, m
ScenarioReturns == {39321, 4660, 65535}         \* 0x9999, 0x1234, 0xFFFF

\* a 32 KiB cartridge holding 3E n C6 m C9 at 0x0100
ScenarioROM(n, m) ==
    Slice(32768,
          ArrSet(ArrSet((256 :> 62) @@ (258 :> 198) @@ (260 :> 201), 257, n), 259, m))

InitScenario ==
    /\ \E n \in ScenarioLoads, m \in ScenarioAddends, ret \in ScenarioReturns :
          /\ ROMData = ScenarioROM(n, m)
          /\ mem = Write(Write(NewMemory(ROMData), NewCPU.SP, Byte(ret)),
                         Wrap16(NewCPU.SP + 1), ret \div 256)
    /\ cpu = NewCPU
    /\ panicked = FALSE
    /\ addend = 0
    /\ nops = 0
    /\ last = Started(cpu, mem)

NextScenario == nops < MaxScenarioSteps /\ Step

SpecScenario == InitScenario /\ [][NextScenario]_vars

\* C13: from reset at 0x0100 over 3E n C6 m C9 with return address R at SP, three
\* steps leave A = (n+m) mod 256, Zero iff that is 0, Carry iff n+m > 255, PC = R
\* and SP raised by 2.
C13_LoadAddReturn ==
    (nops = 3 /\ ~panicked) =>
        LET n == ArrGet(ROMData.data, 257)
            m == ArrGet(ROMData.data, 259)
            ret == Read(mem, NewCPU.SP) + 256 * Read(mem, Wrap16(NewCPU.SP + 1))
        IN /\ cpu.A = (n + m) % 256
           /\ ZeroSet(cpu) <=> ((n + m) % 256 = 0)
           /\ CarrySet(cpu) <=> (n + m > 255)
           /\ cpu.PC = ret
           /\ cpu.SP = Wrap16(NewCPU.SP + 2)

\* n = 0x0A, m = 0x02, R = 0x9999: A = 0x0C, Zero and Carry clear, PC = 0x9999
C13_Witness ==
    /\ nops = 3 /\ ~panicked
    /\ ArrGet(ROMData.data, 257) = 10 /\ ArrGet(ROMData.data, 259) = 2
    /\ cpu.A = 12 /\ ~ZeroSet(cpu) /\ ~CarrySet(cpu) /\ cpu.PC = 39321
    /\ last.op = "Execute" /\ last.value = 201

----------------------------------------------------------------------------
(* SpecReset: from the reset state of NewCPU (the driver only sets PC, as    *)
(* main.go:33 does), any mix of Execute steps and direct Add and Sub calls   *)

MaxResetOps == 3     \* operations in a run of SpecReset

AluVals == {1, 255}  \* 0x01, 0xFF

\* cpu.Add(value), counted as an operation of the run
CallAdd(value) ==
    /\ ~panicked
    /\ cpu' = Add(cpu, value)
    /\ last' = Did("Add", 0, value, 0, FALSE, mem)
    /\ nops' = nops + 1
    /\ UNCHANGED <<ROMData, mem, panicked, addend>>

\* cpu.Sub(value), counted as an operation of the run
CallSub(value) ==
    /\ ~panicked
    /\ cpu' = Sub(cpu, value)
    /\ last' = Did("Sub", 0, value, 0, FALSE, mem)
    /\ nops' = nops + 1
    /\ UNCHANGED <<ROMData, mem, panicked, addend>>

InitReset ==
    /\ \E x \in EntryPoints, prog \in Programs :
          /\ ROMData = Cartridge(x, prog)
          /\ mem = LoadProgram(NewMemory(ROMData), x, prog)
          /\ cpu = [NewCPU EXCEPT !.PC = x]
    /\ panicked = FALSE
    /\ addend = 0
    /\ nops = 0
    /\ last = Started(cpu, mem)

NextReset ==
    \/ nops < MaxResetOps /\ Step
    \/ \E value \in AluVals : nops < MaxResetOps /\ CallAdd(value)
    \/ \E value \in AluVals : nops < MaxResetOps /\ CallSub(value)

SpecReset == InitReset /\ [][NextReset]_vars

\* C14: in every state reached from reset by Execute steps and direct Add and Sub
\* calls, bits 3..0 of F are zero.
C14_FlagsLowNibbleZero == cpu.F % 16 = 0

\* Zero and Carry both set by an Add that follows an Execute step
C14_Witness ==
    /\ last.op = "Add" /\ last.prev.op = "Execute"
    /\ cpu.F = 144

\* the last operation was a step that executed an instruction the code defines
DefinedInstructionStep ==
    /\ last.op = "Execute" /\ ~panicked
    /\ \/ last.value \in DefinedOpcodes \ {203}
       \/ last.value = 203 /\ Read(last.mem, Wrap16(last.addr + 1)) \in DefinedCB

\* C15: Cycles never decreases and is never reset; a step that executes a defined
\* instruction makes it strictly greater.
C15_CyclesMonotonic ==
    /\ cpu.Cycles >= last.cpu.Cycles
    /\ DefinedInstructionStep => cpu.Cycles > last.cpu.Cycles

\* a defined instruction executed when Cycles already counts an earlier one
C15_Witness ==
    /\ DefinedInstructionStep /\ last.cpu.Cycles >= 16
    /\ last.prev.op = "Execute"
    /\ cpu.Cycles > last.cpu.Cycles

----------------------------------------------------------------------------
(* Conditional control flow *)

JPccOpcodes == {194, 218}               \* 0xC2, 0xDA
JRccOpcodes == {32, 40}                 \* 0x20, 0x28
CALLccOpcodes == {196, 204}             \* 0xC4, 0xCC
RETccOpcodes == {192, 200, 208, 216}    \* 0xC0, 0xC8, 0xD0, 0xD8

ConditionalOpcodes == JPccOpcodes \cup JRccOpcodes \cup CALLccOpcodes \cup RETccOpcodes

\* the last operation was a step of a conditional opcode that returned
ConditionalStep ==
    last.op = "Execute" /\ ~panicked /\ last.value \in ConditionalOpcodes

\* bytes the instruction occupies: opcode plus operand
InstructionLength(opcode) ==
    CASE opcode \in JPccOpcodes \cup CALLccOpcodes -> 3
      [] opcode \in JRccOpcodes -> 2
      [] OTHER -> 1

\* C16: a conditional opcode at X whose condition is false leaves PC at X+3
\* (JP cc, CALL cc), X+2 (JR cc) or X+1 (RET cc), and leaves SP and every byte of
\* the bus, the caller's and the copy Execute worked on, as they were.
C16_NotTakenFallsThrough ==
    (ConditionalStep /\ ~last.taken) =>
        /\ cpu.PC = Wrap16(last.addr + InstructionLength(last.value))
        /\ cpu.SP = last.cpu.SP
        /\ mem = last.mem
        /\ last.local = last.mem

\* JP NZ at 0x0200 with Zero set falls through to 0x0203
C16_Witness ==
    /\ ConditionalStep /\ ~last.taken
    /\ last.value = 194 /\ last.addr = 512 /\ ZeroSet(last.cpu)
    /\ cpu.PC = 515

\* the flag a conditional opcode tests
ConditionFlag(opcode) == IF opcode \in {208, 216} THEN FlagC ELSE FlagZ

\* c with the tested flag inverted, so that the same opcode decides the other way
WithConditionInverted(c, opcode) ==
    LET mask == ConditionFlag(opcode)
    IN [c EXCEPT !.F = IF BitAnd(@, mask) # 0 THEN BitAndNot(@, mask) ELSE BitOr(@, mask)]

\* cycles one Execute adds from c over memory
StepCost(c, memory) == Execute(c, memory).cpu.Cycles - c.Cycles

\* C17: a step of a conditional opcode that takes the branch adds strictly more
\* cycles than a step of the same opcode, on the same bytes, that falls through.
C17_TakenCostsMore ==
    (ConditionalStep /\ last.taken) =>
        cpu.Cycles - last.cpu.Cycles
            > StepCost(WithConditionInverted(last.cpu, last.value), last.mem)

\* the last operation was a step that fetched the prefix 0xCB and returned
PrefixStep == last.op = "Execute" /\ ~panicked /\ last.value = 203

\* C18: a step that fetches 0xCB at X leaves PC = X+2 whatever the second byte is.
C18_PrefixConsumesSecondByte ==
    PrefixStep => cpu.PC = Wrap16(last.addr + 2)

----------------------------------------------------------------------------
(* Logical AND / OR *)

ANDOpcodes == {164, 165, 166}     \* 0xA4 .. 0xA6
OROpcodes == 176 .. 182           \* 0xB0 .. 0xB6

\* the last operation was a step of an AND or OR opcode that returned
LogicStep ==
    last.op = "Execute" /\ ~panicked /\ last.value \in ANDOpcodes \cup OROpcodes

SubtractSet(c) == BitAnd(c.F, FlagN) # 0
HalfCarrySet(c) == BitAnd(c.F, FlagH) # 0

\* C19: after an AND or OR opcode, whatever F held before, Zero is set iff the
\* new A is 0, and Carry and Subtract are clear.
C19_LogicFlags ==
    LogicStep =>
        /\ ZeroSet(cpu) <=> cpu.A = 0
        /\ ~CarrySet(cpu)
        /\ ~SubtractSet(cpu)

\* C20: after an AND opcode Half-carry is set; after an OR opcode it is clear.
C20_LogicHalfCarry ==
    LogicStep =>
        IF last.value \in ANDOpcodes THEN HalfCarrySet(cpu) ELSE ~HalfCarrySet(cpu)

----------------------------------------------------------------------------
(* Subtract flag, Sub *)

\* C21: Subtract (bit 6 of F) is set after every Sub call, and clear after every
\* Add call and every AND or OR opcode, whatever the operands.
C21_SubtractFlag ==
    /\ last.op = "Sub" => SubtractSet(cpu)
    /\ last.op = "Add" => ~SubtractSet(cpu)
    /\ LogicStep => ~SubtractSet(cpu)

\* C22: Sub(b) with A = a leaves A = (a-b) mod 256, Zero set iff a = b and Carry
\* set iff a < b.
C22_SubResultZeroCarry ==
    last.op = "Sub" =>
        LET a == last.cpu.A
            b == last.value
        IN /\ cpu.A = (a - b) % 256
           /\ ZeroSet(cpu) <=> a = b
           /\ CarrySet(cpu) <=> a < b

\* a borrow: 5 - 10 leaves 0xFB with Carry set and Zero clear, from F = 0xF0
C22_Witness ==
    /\ last.op = "Sub" /\ last.cpu.A = 5 /\ last.value = 10 /\ last.cpu.F = 240
    /\ cpu.A = 251 /\ CarrySet(cpu) /\ ~ZeroSet(cpu)

----------------------------------------------------------------------------
(* Push *)

\* C23: Push(v) lowers SP by 2, then stores the low byte of v at the new SP and
\* the high byte at the new SP+1, in the Memory it was handed; no byte at the
\* old SP or above, and no other address, reads differently afterwards.
C23_PushByteOrder ==
    last.op = "Push" =>
        /\ cpu.SP = Wrap16(last.cpu.SP - 2)
        /\ Read(last.local, cpu.SP) = last.value % 256
        /\ Read(last.local, Wrap16(cpu.SP + 1)) = last.value \div 256
        /\ \A a \in ProbeAddrs \ {cpu.SP, Wrap16(cpu.SP + 1)} :
              Read(last.local, a) = Read(last.mem, a)

\* C24: in every state reached from reset (SP = 0xFFFE) by Execute steps, SP is
\* even.
C24_StackPointerEven == cpu.SP % 2 = 0

\* a call has lowered SP to 0xFFFC
C24_Witness ==
    /\ last.op = "Execute" /\ ~panicked /\ last.value = 205
    /\ last.cpu.SP = 65534 /\ cpu.SP = 65532

----------------------------------------------------------------------------
(* SpecDriver: the emulation loop of main over a ROM image read from a file  *)

MaxDriverSteps == 4     \* iterations of the loop in a run of SpecDriver

MaxImageLen == 3        \* bytes in the short images of SpecDriver

\* 0x00 (unknown), 0x3E LD A,d8, 0xC3 JP a16, 0xC9 RET, 0x02
DriverBytes == {0, 62, 195, 201, 2}

\* the rom slice holding the bytes of seq
ImageOf(seq) ==
    Slice(Len(seq), [i \in {j \in 0 .. Len(seq) - 1 : seq[j + 1] # 0} |-> seq[i + 1]])

\* every non-empty image of up to MaxImageLen bytes, and the two larger samples
DriverImages ==
    {ImageOf(seq) : seq \in UNION {[1 .. n -> DriverBytes] : n \in 1 .. MaxImageLen}}
        \cup RomImages

InitDriver ==
    /\ ROMData \in DriverImages
    /\ mem = NewMemory(ROMData)
    /\ cpu = [NewCPU EXCEPT !.PC = 0]
    /\ panicked = FALSE
    /\ addend = 0
    /\ nops = 0
    /\ last = Started(cpu, mem)

\* one iteration: Execute, then the loop goes on only while PC < len(ROMData)
NextDriver ==
    /\ nops < MaxDriverSteps
    /\ nops = 0 \/ cpu.PC < ROMData.len
    /\ Step

SpecDriver == InitDriver /\ [][NextDriver]_vars

\* C25: in the loop of main over a non-empty image of at most 0x8000 bytes, every
\* read a step makes in the ROM region is below the image length: no step fails on
\* an out-of-range index of the rom slice.
C25_DriverRomReadsInRange == ~panicked

----------------------------------------------------------------------------
(* SpecFrame: Execute steps from stack pointers in several regions of the map *)

MaxFrameSteps == 2     \* Execute steps in a run of SpecFrame

FrameTops == {65534, 49154, 2, 65185}    \* SP = 0xFFFE, 0xC002, 0x0002, 0xFEA1

InitFrame ==
    /\ \E x \in EntryPoints, prog \in Programs, f \in StartFlags, sp \in FrameTops :
          /\ ROMData = Cartridge(x, prog)
          /\ mem = LoadProgram(NewMemory(ROMData), x, prog)
          /\ cpu = [NewCPU EXCEPT !.PC = x, !.F = f, !.SP = sp]
    /\ panicked = FALSE
    /\ addend = 0
    /\ nops = 0
    /\ last = Started(cpu, mem)

NextFrame == nops < MaxFrameSteps /\ Step

SpecFrame == InitFrame /\ [][NextFrame]_vars

\* the last operation was a step that performed a call
CallStep ==
    /\ last.op = "Execute" /\ ~panicked
    /\ last.value \in {205, 196, 204} /\ last.taken

\* C26: an Execute step changes bytes of the bus, the caller's or the Memory the
\* step worked on, only when it performs a call (0xCD, or 0xC4/0xCC taken), and
\* then only at the new SP and the new SP+1; any other step leaves every byte.
C26_ExecuteWritesOnlyOnCall ==
    (last.op = "Execute" /\ ~panicked) =>
        \A m \in {mem, last.local} :
            IF CallStep
            THEN \A a \in ProbeAddrs \ {cpu.SP, Wrap16(cpu.SP + 1)} :
                     Read(m, a) = Read(last.mem, a)
            ELSE m = last.mem

\* CALL a16 at 0x0200 with SP = 0xC002: SP is lowered to 0xC000, in work RAM
C26_Witness ==
    /\ CallStep /\ last.value = 205 /\ last.addr = 512
    /\ last.cpu.SP = 49154 /\ cpu.SP = 49152
    /\ last.local = last.mem /\ mem = last.mem

----------------------------------------------------------------------------
(* The truncated-comparison Add *)

\* C27 as stated: for some byte pair (a, b) the Carry that the truncated-comparison
\* Add computes differs from a+b > 255, and it does so for some pair with b = 0.
C27_TruncatedCarryDiffers ==
    /\ \E a \in Bytes, b \in Bytes :
          CarrySet(AddTruncated([cpu EXCEPT !.A = a], b)) # (a + b > 255)
    /\ \E a \in Bytes :
          CarrySet(AddTruncated([cpu EXCEPT !.A = a], 0)) # (a + 0 > 255)

\* C27 amended: for every byte pair (a, b), b = 0 included, the truncated-comparison
\* Add sets Carry iff a+b > 255, the flag the widened Add computes.
C27_TruncatedCarryAgrees ==
    last.op = "AddTruncated" =>
        /\ CarrySet(cpu) <=> last.cpu.A + last.value > 255
        /\ CarrySet(cpu) <=> CarrySet(Add(last.cpu, last.value))

\* an addend of zero: Carry, set before the call, is cleared
C27_Witness ==
    /\ last.op = "AddTruncated" /\ last.value = 0
    /\ last.cpu.A = 90 /\ last.cpu.F = 240
    /\ cpu.A = 90 /\ ~CarrySet(cpu)
=============================================================================
